---- MODULE Spec2Model ----
(***************************************************************************)
(* Voice-activity segmentation and dispatch in the three iterations of the  *)
(* bot: old.bot.py (AudioProcessor / MySink / TranscriberCog), bot.py       *)
(* (VoiceTranslatorSink with a silence counter) and bot2.py                 *)
(* (frame_generator + vad_collector driven by VoiceTranslatorSink.write).   *)
(*                                                                         *)
(* One behaviour runs one of the three programs; prog says which.  Audio    *)
(* bytes are never inspected by the code except through len(), slicing and  *)
(* the external classifier, so a piece of audio is modelled by where it     *)
(* came from: the id of the chunk handed to write, the speaker, the byte    *)
(* range [lo, hi) inside the chunk, and the verdict sp the classifier gives *)
(* for exactly those bytes (the classifier is deterministic per bytes).     *)
(***************************************************************************)
EXTENDS Integers, Sequences, FiniteSets, TLC

\* ---------------------------------------------------------------- bounds
MaxChunks == 4          \* write calls per behaviour, bot.py and old.bot.py
MaxChunks2 == 2         \* write calls per behaviour, bot2.py
MaxFrames == 3          \* full frames in one bot2.py chunk
MaxYielded == 4         \* frames in all bot2.py chunks of one behaviour
RunsMaxSpeech == 31     \* longest leading speech run in SpecRuns
RunsMaxTail == 29       \* longest non-speech run after speech in SpecRuns
RunsMaxSilence == 600   \* longest all-non-speech input in SpecRuns
MaxFaults == 1          \* frames on which the resampler or the classifier raises
FlipsMaxFrames == 30    \* frames of the chunk in SpecFlips
FlipsMaxFlips == 3      \* changes of verdict between neighbouring frames in SpecFlips

Progs == {"old", "bot", "bot2"}
Users == {1, 2}
Guilds == {1}

\* ------------------------------------------------------------- variables
VARIABLES
    prog,                   \* which source file this behaviour runs
    \* configuration (config.json values, fixed after construction)
    RATE, CHUNK_DURATION_MS, SILENCE_THRESHOLD,
    config_silence_duration,
    \* the voice client is recording into a sink (library state, all programs)
    recording,
    sinks,                  \* number of sinks that are being recorded into
    files,                  \* users u whose temp_<u>.wav exists
    event,                  \* what the latest step was and how it ended
    \* bot.py / bot2.py VoiceTranslatorBot and VoiceTranslatorSink
    connections, speaking_buffer, silence_duration, is_speaking, tasks,
    \* bot2.py generators alive inside one write call
    pc, audio, offset, ring_buffer, triggered, voiced_frames,
    \* old.bot.py VoiceTranscriberBot, MySink and AudioProcessor
    recording_channels, audio_buffer, silence_frames, recognizing,
    \* history (not program state)
    received, yielded, accepted, emitted, fed

cfgvars == <<prog, RATE, CHUNK_DURATION_MS, SILENCE_THRESHOLD,
             config_silence_duration>>
botvars == <<recording, sinks, connections, speaking_buffer,
             silence_duration, is_speaking>>
genvars == <<pc, audio, offset, ring_buffer, triggered, voiced_frames>>
oldvars == <<recording_channels, audio_buffer, silence_frames, recognizing>>
histvars == <<received, yielded, accepted, emitted>>
vars == <<cfgvars, botvars, tasks, files, event, genvars, oldvars, histvars,
          fed>>

\* --------------------------------------------------------------- helpers
Last(s) == s[Len(s)]

Range(s) == {s[i] : i \in DOMAIN s}

RECURSIVE Flatten(_)
Flatten(ss) == IF ss = <<>> THEN <<>> ELSE Head(ss) \o Flatten(Tail(ss))

RECURSIVE SumLen(_)
SumLen(fs) == IF fs = <<>> THEN 0
              ELSE (Head(fs).hi - Head(fs).lo) + SumLen(Tail(fs))

NoAudio == [id |-> 0, user |-> 0, len |-> 0]

\* the latest step: a chat command ("start", "stop") with the way it ended,
\* or audio / dispatch work ("io")
Event(op, result) == [op |-> op, result |-> result]
Io == Event("io", "ok")
\* a dispatch task ended: with the notification sent, with a logged failure
\* or on an empty recognition result
TaskEvent(result, torn) == [op |-> "task", result |-> result, torn |-> torn]

\* ------------------------------------------------- bot2.py frame_generator
\* n = int(sample_rate * (frame_duration_ms / 1000.0) * 2)
FrameBytes(sample_rate, frame_duration_ms) ==
    (sample_rate * frame_duration_ms * 2) \div 1000

n == FrameBytes(RATE, CHUNK_DURATION_MS)

\* while offset + n < len(audio)
HasNextFrame(a, off) == off + n < a.len

\* Frame(audio[offset:offset + n], ...): a Python slice stops at len(audio)
SliceFrame(a, off, sp) ==
    [id |-> a.id, user |-> a.user, lo |-> off,
     hi |-> IF off + n < a.len THEN off + n ELSE a.len, sp |-> sp]

\* --------------------------------------------------- bot2.py vad_collector
\* num_padding_frames = int(padding_duration_ms / frame_duration_ms); write
\* passes SILENCE_THRESHOLD as padding_duration_ms
num_padding_frames == SILENCE_THRESHOLD \div CHUNK_DURATION_MS

\* collections.deque(maxlen=...).append
DequeAppendNoEvict(dq, maxlen, x) == Append(dq, x)
DequeAppend(dq, maxlen, x) ==
    IF maxlen = 0 THEN dq
    ELSE IF Len(dq) = maxlen THEN Append(Tail(dq), x)
    ELSE Append(dq, x)

\* len([f for f in ring_buffer if vad.is_speech(f.bytes, sample_rate)])
NumVoiced(rb) == Cardinality({i \in DOMAIN rb : rb[i].sp})
NumUnvoiced(rb) == Cardinality({i \in DOMAIN rb : ~rb[i].sp})

\* num_voiced > 0.9 * ring_buffer.maxlen   (exact in tenths)
ShouldTriggerOfCurrent(rb, maxlen) == 10 * NumVoiced(rb) > 9 * Len(rb)
ShouldTriggerAnyFrame(rb, maxlen) == 10 * Len(rb) > 9 * maxlen
ShouldTrigger(rb, maxlen) == 10 * NumVoiced(rb) > 9 * maxlen

\* num_unvoiced > 0.9 * ring_buffer.maxlen
ShouldReleaseOfCurrent(rb, maxlen) == 10 * NumUnvoiced(rb) > 9 * Len(rb)
ShouldReleaseAtThreshold(rb, maxlen) == 10 * NumUnvoiced(rb) >= 9 * maxlen
ShouldRelease(rb, maxlen) == 10 * NumUnvoiced(rb) > 9 * maxlen

CollectorStepSpeechOnly(rb, trig, vf, maxlen, frame) ==
    IF ~trig
    THEN LET rb1 == DequeAppend(rb, maxlen, frame)
         IN  IF ShouldTrigger(rb1, maxlen)
             THEN [ring_buffer |-> <<>>, triggered |-> TRUE,
                   voiced_frames |-> vf \o SelectSeq(rb1, LAMBDA f : f.sp),
                   out |-> <<>>]
             ELSE [ring_buffer |-> rb1, triggered |-> FALSE,
                   voiced_frames |-> vf, out |-> <<>>]
    ELSE LET vf1 == Append(vf, frame)
             rb1 == DequeAppend(rb, maxlen, frame)
         IN  IF ShouldRelease(rb1, maxlen)
             THEN [ring_buffer |-> <<>>, triggered |-> FALSE,
                   voiced_frames |-> <<>>, out |-> <<vf1>>]
             ELSE [ring_buffer |-> rb1, triggered |-> TRUE,
                   voiced_frames |-> vf1, out |-> <<>>]

CollectorStepKeepsVoiced(rb, trig, vf, maxlen, frame) ==
    IF ~trig
    THEN LET rb1 == DequeAppend(rb, maxlen, frame)
         IN  IF ShouldTrigger(rb1, maxlen)
             THEN [ring_buffer |-> <<>>, triggered |-> TRUE,
                   voiced_frames |-> vf \o rb1, out |-> <<>>]
             ELSE [ring_buffer |-> rb1, triggered |-> FALSE,
                   voiced_frames |-> vf, out |-> <<>>]
    ELSE LET vf1 == Append(vf, frame)
             rb1 == DequeAppend(rb, maxlen, frame)
         IN  IF ShouldRelease(rb1, maxlen)
             THEN [ring_buffer |-> <<>>, triggered |-> FALSE,
                   voiced_frames |-> vf1, out |-> <<vf1>>]
             ELSE [ring_buffer |-> rb1, triggered |-> TRUE,
                   voiced_frames |-> vf1, out |-> <<>>]

\* One iteration of "for frame in frames" of vad_collector, run up to the
\* point where the loop asks for the next frame.  out is the sequence of
\* segments yielded by the iteration (none or one).
CollectorStep(rb, trig, vf, maxlen, frame) ==
    IF ~trig
    THEN LET rb1 == DequeAppend(rb, maxlen, frame)
         IN  IF ShouldTrigger(rb1, maxlen)
             THEN [ring_buffer |-> <<>>, triggered |-> TRUE,
                   voiced_frames |-> vf \o rb1, out |-> <<>>]
             ELSE [ring_buffer |-> rb1, triggered |-> FALSE,
                   voiced_frames |-> vf, out |-> <<>>]
    ELSE LET vf1 == Append(vf, frame)
             rb1 == DequeAppend(rb, maxlen, frame)
         IN  IF ShouldRelease(rb1, maxlen)
             THEN [ring_buffer |-> <<>>, triggered |-> FALSE,
                   voiced_frames |-> <<>>, out |-> <<vf1>>]
             ELSE [ring_buffer |-> rb1, triggered |-> TRUE,
                   voiced_frames |-> vf1, out |-> <<>>]

\* if voiced_frames: yield b''.join(...)   after the loop
CollectorFinal(vf) == IF vf # <<>> THEN <<vf>> ELSE <<>>

\* asyncio.create_task(self._process_utterance(segment, user))
\* torn: stop_recording ran while the task was handed over and not finished
NewTask(data, user) ==
    [audio_data |-> data, user |-> user, st |-> "pending", torn |-> FALSE]

Segment(data, user, via) == [data |-> data, user |-> user, via |-> via]

\* --------------------------------------------- bot2.py VoiceTranslatorSink
\* write(data, user): the two generators are created; nothing runs yet
Bot2Write(len, user) ==
    /\ prog = "bot2"
    /\ pc = "idle"
    /\ recording
    /\ LET a == [id |-> Len(received) + 1, user |-> user, len |-> len]
       IN  /\ audio' = a
           /\ received' = Append(received, a)
    /\ offset' = 0
    /\ ring_buffer' = <<>>
    /\ triggered' = FALSE
    /\ voiced_frames' = <<>>
    /\ pc' = "loop"
    /\ event' = Io
    /\ UNCHANGED <<cfgvars, botvars, tasks, files, oldvars, yielded, accepted,
                   emitted>>

\* "for segment in segments" pulls one frame through frame_generator and
\* vad_collector; sp is what vad.is_speech answers for the frame's bytes
Bot2Frame(sp) ==
    /\ prog = "bot2"
    /\ pc = "loop"
    /\ HasNextFrame(audio, offset)
    /\ LET frame == SliceFrame(audio, offset, sp)
           r == CollectorStep(ring_buffer, triggered, voiced_frames,
                              num_padding_frames, frame)
       IN  /\ ring_buffer' = r.ring_buffer
           /\ triggered' = r.triggered
           /\ voiced_frames' = r.voiced_frames
           /\ yielded' = Append(yielded, frame)
           /\ accepted' = accepted \o
                 (IF r.triggered /\ ~triggered THEN r.voiced_frames
                  ELSE IF triggered THEN <<frame>> ELSE <<>>)
           /\ emitted' = emitted \o
                 [i \in DOMAIN r.out |-> Segment(r.out[i], audio.user, "collector")]
           /\ tasks' = tasks \o
                 [i \in DOMAIN r.out |-> NewTask(r.out[i], audio.user)]
    /\ offset' = offset + n
    /\ event' = Io
    /\ UNCHANGED <<cfgvars, botvars, files, pc, audio, oldvars, received>>

\* vad.is_speech raises on the frame just taken from frame_generator: the
\* exception leaves vad_collector and the for loop of write and is logged by
\* the except clause of write; both generators are dropped with whatever
\* they hold.  The frame is recorded with the place of the failure instead
\* of a verdict.
Bot2FrameRaises ==
    /\ prog = "bot2"
    /\ pc = "loop"
    /\ HasNextFrame(audio, offset)
    /\ LET f == SliceFrame(audio, offset, FALSE)
       IN  yielded' = Append(yielded, [id |-> f.id, user |-> f.user,
                                       lo |-> f.lo, hi |-> f.hi,
                                       fault |-> "vad"])
    /\ pc' = "idle"
    /\ audio' = NoAudio
    /\ offset' = 0
    /\ ring_buffer' = <<>>
    /\ triggered' = FALSE
    /\ voiced_frames' = <<>>
    /\ event' = Io
    /\ UNCHANGED <<cfgvars, botvars, tasks, files, oldvars, received, accepted,
                   emitted>>

\* frame_generator is exhausted: the collector leaves its loop, yields the
\* pending voiced frames if there are any, and write returns
Bot2End ==
    /\ prog = "bot2"
    /\ pc = "loop"
    /\ ~HasNextFrame(audio, offset)
    /\ LET out == CollectorFinal(voiced_frames)
       IN  /\ emitted' = emitted \o
                 [i \in DOMAIN out |-> Segment(out[i], audio.user, "final")]
           /\ tasks' = tasks \o
                 [i \in DOMAIN out |-> NewTask(out[i], audio.user)]
    /\ pc' = "idle"
    /\ audio' = NoAudio
    /\ offset' = 0
    /\ ring_buffer' = <<>>
    /\ triggered' = FALSE
    /\ voiced_frames' = <<>>
    /\ event' = Io
    /\ UNCHANGED <<cfgvars, botvars, files, oldvars, received, yielded, accepted>>

\* ------------------------------------------ bot.py VoiceTranslatorSink.write
\* One call of write(data, user); sp is the verdict of vad.is_speech on the
\* resampled chunk.  The buffer and the counters belong to the sink, not to
\* the speaker.
BotWrite(user, sp) ==
    /\ prog = "bot"
    /\ recording
    /\ LET chunk == [id |-> Len(received) + 1, user |-> user, sp |-> sp]
       IN  /\ received' = Append(received, chunk)
           /\ IF sp
              THEN /\ silence_duration' = 0
                   /\ speaking_buffer' = Append(speaking_buffer, chunk)
                   /\ is_speaking' = TRUE
                   /\ accepted' = Append(accepted, chunk)
                   /\ UNCHANGED <<tasks, emitted>>
              ELSE /\ silence_duration' = silence_duration + 1
                   /\ IF silence_duration + 1 >= SILENCE_THRESHOLD /\ is_speaking
                      THEN /\ tasks' = Append(tasks, NewTask(speaking_buffer, user))
                           /\ emitted' = Append(emitted,
                                  Segment(speaking_buffer, user, "write"))
                           /\ speaking_buffer' = <<>>
                           /\ is_speaking' = FALSE
                      ELSE UNCHANGED <<tasks, emitted, speaking_buffer, is_speaking>>
                   /\ UNCHANGED accepted
    /\ event' = Io
    /\ UNCHANGED <<cfgvars, recording, sinks, connections, files, genvars,
                   oldvars, yielded>>

\* write(data, user) where np.frombuffer / _resample (at = "resample") or
\* vad.is_speech (at = "vad") raises: both are inside the try of write and
\* before its first assignment, so the except clause logs and write returns
BotWriteRaisesCounted(user, at) ==
    /\ prog = "bot"
    /\ recording
    /\ received' = Append(received, [id |-> Len(received) + 1, user |-> user,
                                     fault |-> at])
    /\ silence_duration' = silence_duration + 1
    /\ event' = Io
    /\ UNCHANGED <<cfgvars, recording, sinks, connections, speaking_buffer,
                   is_speaking, tasks, files, genvars, oldvars, yielded,
                   accepted, emitted>>

BotWriteRaises(user, at) ==
    /\ prog = "bot"
    /\ recording
    /\ received' = Append(received, [id |-> Len(received) + 1, user |-> user,
                                     fault |-> at])
    /\ event' = Io
    /\ UNCHANGED <<cfgvars, botvars, tasks, files, genvars, oldvars, yielded,
                   accepted, emitted>>

\* ---------------------- bot.py / bot2.py VoiceTranslatorBot.start_recording
\* join: channel.connect() (refused by the library while the guild still has
\* a voice client), then start_recording builds a new sink
BotStart(g) ==
    /\ prog \in {"bot", "bot2"}
    /\ pc = "idle"
    /\ IF g \notin connections /\ ~recording
       THEN /\ recording' = TRUE
            /\ sinks' = sinks + 1
            /\ connections' = connections \cup {g}
            /\ speaking_buffer' = <<>>
            /\ silence_duration' = 0
            /\ is_speaking' = FALSE
            /\ event' = Event("start", "done")
       ELSE /\ event' = Event("start", "raised")
            /\ UNCHANGED <<recording, sinks, connections, speaking_buffer,
                           silence_duration, is_speaking>>
    /\ UNCHANGED <<cfgvars, tasks, files, genvars, oldvars, histvars>>

Finished(t) == t.st = "done"

\* leave: stop_recording(guild_id); voice_client.stop_recording() ends the
\* recording and the library calls sink.cleanup(), which only drops the two
\* API clients: a task that reaches recognize after that fails, which is one
\* of the outcomes TaskReturn allows.  Tasks are not cancelled.
BotStopUnchecked(g) ==
    /\ prog \in {"bot", "bot2"}
    /\ pc = "idle"
    /\ IF g \in connections
       THEN /\ recording' = FALSE
            /\ sinks' = sinks - 1
            /\ connections' = connections \ {g}
            /\ tasks' = [i \in DOMAIN tasks |->
                            IF Finished(tasks[i]) THEN tasks[i]
                            ELSE [tasks[i] EXCEPT !.torn = TRUE]]
            /\ event' = Event("stop", "done")
       ELSE /\ event' = Event("stop", "raised")
            /\ UNCHANGED <<recording, sinks, connections, tasks>>
    /\ UNCHANGED <<cfgvars, speaking_buffer, silence_duration, is_speaking,
                   files, genvars, oldvars, histvars>>

BotStop(g) ==
    /\ prog \in {"bot", "bot2"}
    /\ pc = "idle"
    /\ IF g \in connections
       THEN /\ recording' = FALSE
            /\ sinks' = sinks - 1
            /\ connections' = connections \ {g}
            /\ tasks' = [i \in DOMAIN tasks |->
                            IF Finished(tasks[i]) THEN tasks[i]
                            ELSE [tasks[i] EXCEPT !.torn = TRUE]]
            /\ event' = Event("stop", "done")
       ELSE /\ event' = Event("stop", "unknown")
            /\ UNCHANGED <<recording, sinks, connections, tasks>>
    /\ UNCHANGED <<cfgvars, speaking_buffer, silence_duration, is_speaking,
                   files, genvars, oldvars, histvars>>

\* ------------------------- bot.py / bot2.py _process_utterance (the tasks)
\* The event loop starts tasks in the order create_task was called; a task
\* runs without yielding up to and including speech_client.recognize.  A
\* task shares nothing with a running write but the list of tasks, so its
\* steps are taken between the steps of bot2.py's write loop only at the
\* loop's ends (pc = "idle"); a write may start and run while a recognize
\* call is in flight.
LastPending == CHOOSE i \in DOMAIN tasks :
                   /\ tasks[i].st = "pending"
                   /\ \A j \in DOMAIN tasks : tasks[j].st = "pending" => j <= i

FirstPending == CHOOSE i \in DOMAIN tasks :
                    /\ tasks[i].st = "pending"
                    /\ \A j \in DOMAIN tasks : tasks[j].st = "pending" => i <= j

\* the task writes temp_<user.id>.wav, reads it back and calls recognize
TaskRecognize ==
    /\ prog \in {"bot", "bot2"}
    /\ pc = "idle"
    /\ \E i \in DOMAIN tasks : tasks[i].st = "pending"
    /\ \A i \in DOMAIN tasks : tasks[i].st # "recognizing"
    /\ tasks' = [tasks EXCEPT ![FirstPending].st = "recognizing"]
    /\ files' = files \cup {tasks[FirstPending].user}
    /\ event' = Io
    /\ UNCHANGED <<cfgvars, botvars, genvars, oldvars, histvars>>

TaskReturnNoUnlink(outcome) ==
    /\ prog \in {"bot", "bot2"}
    /\ pc = "idle"
    /\ \E i \in DOMAIN tasks :
          /\ tasks[i].st = "recognizing"
          /\ tasks' = [tasks EXCEPT ![i].st = "done", ![i].torn = FALSE]
          /\ event' = TaskEvent(outcome, tasks[i].torn)
    /\ UNCHANGED <<cfgvars, botvars, files, genvars, oldvars, histvars>>

\* the rest of the coroutine, taken in one step because nothing after
\* recognize reads the sink: recognize returns no results ("empty": plain
\* return), it raises, as does the translation, an unsupported language or
\* the send ("failed": logger.error), or the notification is sent ("sent");
\* the finally clause unlinks the file.  A finished task keeps no outcome:
\* the outcome is what the event of the step tells.
TaskReturn(outcome) ==
    /\ prog \in {"bot", "bot2"}
    /\ pc = "idle"
    /\ \E i \in DOMAIN tasks :
          /\ tasks[i].st = "recognizing"
          /\ tasks' = [tasks EXCEPT ![i].st = "done", ![i].torn = FALSE]
          /\ event' = TaskEvent(outcome, tasks[i].torn)
          /\ files' = files \ {tasks[i].user}
    /\ UNCHANGED <<cfgvars, botvars, genvars, oldvars, histvars>>

\* ------------------------------------------------- old.bot.py AudioProcessor
frame_duration == 30

max_silence_frames_short == config_silence_duration \div (2 * frame_duration)

\* self.max_silence_frames = config.silence_duration // self.frame_duration
max_silence_frames == config_silence_duration \div frame_duration

\* MySink.write -> AudioProcessor.process_audio(audio_chunk); the speaker is
\* not passed on.  When the silence limit is passed with audio buffered,
\* transcribe_audio is called and process_audio stays inside
\* speech_client.recognize until OldRecognizeReturn.
OldWrite(user, sp) ==
    /\ prog = "old"
    /\ recording
    /\ recognizing = "none"
    /\ LET chunk == [id |-> Len(received) + 1, user |-> user, sp |-> sp]
       IN  /\ received' = Append(received, chunk)
           /\ IF sp
              THEN /\ audio_buffer' = Append(audio_buffer, chunk)
                   /\ silence_frames' = 0
                   /\ accepted' = Append(accepted, chunk)
                   /\ UNCHANGED <<recognizing, emitted>>
              ELSE /\ silence_frames' = silence_frames + 1
                   /\ IF silence_frames + 1 > max_silence_frames
                         /\ audio_buffer # <<>>
                      THEN /\ emitted' = Append(emitted,
                                  Segment(audio_buffer, 0, "process"))
                           /\ recognizing' = "process"
                      ELSE UNCHANGED <<recognizing, emitted>>
                   /\ UNCHANGED <<audio_buffer, accepted>>
    /\ event' = Io
    /\ UNCHANGED <<cfgvars, botvars, tasks, files, genvars, recording_channels,
                   yielded>>

\* process_audio where vad.is_speech raises: the except clause logs and
\* nothing has been assigned
OldWriteRaises(user) ==
    /\ prog = "old"
    /\ recording
    /\ recognizing = "none"
    /\ received' = Append(received, [id |-> Len(received) + 1, user |-> user,
                                     fault |-> "vad"])
    /\ event' = Io
    /\ UNCHANGED <<cfgvars, botvars, tasks, files, genvars, oldvars, yielded,
                   accepted, emitted>>

\* speech_client.recognize returns or raises.  Inside process_audio a normal
\* return is followed by the two resets and a raise is swallowed by the
\* except clause before them; inside cleanup a normal return lets
\* on_recording_done go on to recording_channels.remove(ctx.guild.id) (the
\* guild of the one recording) and a raise leaves on_recording_done.
OldRecognizeReturn(ok) ==
    /\ prog = "old"
    /\ recognizing # "none"
    /\ recognizing' = "none"
    /\ IF recognizing = "process"
       THEN /\ IF ok THEN /\ audio_buffer' = <<>>
                          /\ silence_frames' = 0
                     ELSE UNCHANGED <<audio_buffer, silence_frames>>
            /\ UNCHANGED recording_channels
       ELSE /\ IF ok
               THEN \E g \in recording_channels :
                        recording_channels' = recording_channels \ {g}
               ELSE UNCHANGED recording_channels
            /\ UNCHANGED <<audio_buffer, silence_frames>>
    /\ event' = IF recognizing = "cleanup" /\ ~ok THEN Event("io", "raised")
                ELSE Io
    /\ UNCHANGED <<cfgvars, botvars, tasks, files, genvars, histvars>>

\* --------------------------------------------- old.bot.py TranscriberCog
\* start: refuse when the guild is marked, else mark it, build MySink (with a
\* new AudioProcessor) and start recording
OldStartUnchecked(g) ==
    /\ prog = "old"
    /\ recognizing = "none"
    /\ recording_channels' = recording_channels \cup {g}
    /\ recording' = TRUE
    /\ sinks' = sinks + 1
    /\ audio_buffer' = <<>>
    /\ silence_frames' = 0
    /\ event' = Event("start", "done")
    /\ UNCHANGED <<cfgvars, connections, speaking_buffer, silence_duration,
                   is_speaking, tasks, files, genvars, recognizing, histvars>>

OldStart(g) ==
    /\ prog = "old"
    /\ recognizing = "none"
    /\ IF g \in recording_channels
       THEN /\ event' = Event("start", "refused")
            /\ UNCHANGED <<recording, sinks, recording_channels, audio_buffer,
                           silence_frames>>
       ELSE /\ recording_channels' = recording_channels \cup {g}
            /\ recording' = TRUE
            /\ sinks' = sinks + 1
            /\ audio_buffer' = <<>>
            /\ silence_frames' = 0
            /\ event' = Event("start", "done")
    /\ UNCHANGED <<cfgvars, connections, speaking_buffer, silence_duration,
                   is_speaking, tasks, files, genvars, recognizing, histvars>>

\* start where the guild is marked and then ctx.send, MySink(...) or
\* start_recording raises: the except clause logs and answers with the error
\* message; nothing takes the guild out of recording_channels again
OldStartRaises(g) ==
    /\ prog = "old"
    /\ recognizing = "none"
    /\ g \notin recording_channels
    /\ recording_channels' = recording_channels \cup {g}
    /\ event' = Event("start", "failed")
    /\ UNCHANGED <<cfgvars, botvars, tasks, files, genvars, audio_buffer,
                   silence_frames, recognizing, histvars>>

\* stop: voice_client.stop_recording(), after which the library runs
\* on_recording_done: await sink.cleanup() (MySink.cleanup transcribes what
\* is buffered), then recording_channels.remove.  An unmarked guild is
\* answered with a message; stop_recording on a client that is not
\* recording raises and the except clause answers with the error message.
OldStop(g) ==
    /\ prog = "old"
    /\ recognizing = "none"
    /\ IF g \in recording_channels /\ recording
       THEN /\ recording' = FALSE
            /\ sinks' = sinks - 1
            /\ event' = Event("stop", "done")
            /\ IF audio_buffer # <<>>
               THEN /\ emitted' = Append(emitted,
                           Segment(audio_buffer, 0, "cleanup"))
                    /\ recognizing' = "cleanup"
                    /\ UNCHANGED recording_channels
               ELSE /\ recording_channels' = recording_channels \ {g}
                    /\ UNCHANGED <<recognizing, emitted>>
       ELSE /\ event' = IF g \in recording_channels
                        THEN Event("stop", "failed")
                        ELSE Event("stop", "unknown")
            /\ UNCHANGED <<recording, sinks, recording_channels, recognizing,
                           emitted>>
    /\ UNCHANGED <<cfgvars, connections, speaking_buffer, silence_duration,
                   is_speaking, tasks, files, genvars, audio_buffer,
                   silence_frames, received, yielded, accepted>>

\* ----------------------------------------------------------- construction
InitState ==
    /\ recording = FALSE
    /\ sinks = 0
    /\ files = {}
    /\ event = Event("none", "ok")
    /\ connections = {}
    /\ speaking_buffer = <<>>
    /\ silence_duration = 0
    /\ is_speaking = FALSE
    /\ tasks = <<>>
    /\ pc = "idle"
    /\ audio = NoAudio
    /\ offset = 0
    /\ ring_buffer = <<>>
    /\ triggered = FALSE
    /\ voiced_frames = <<>>
    /\ recording_channels = {}
    /\ audio_buffer = <<>>
    /\ silence_frames = 0
    /\ recognizing = "none"
    /\ received = <<>>
    /\ yielded = <<>>
    /\ accepted = <<>>
    /\ emitted = <<>>
    /\ fed = <<>>

\* config.json is not part of the sources: small values for exhaustive runs
Init ==
    /\ prog \in Progs
    /\ RATE = 16000
    /\ CHUNK_DURATION_MS = 30
    /\ SILENCE_THRESHOLD \in
          IF prog = "bot2" THEN {30, 70} ELSE IF prog = "bot" THEN {1, 2}
          ELSE {0}
    /\ config_silence_duration \in IF prog = "old" THEN {30, 60} ELSE {900}
    /\ InitState

\* chunk lengths at and just after a frame boundary
Lengths == {k * n + r : k \in {1, MaxFrames}, r \in {0, 1}}

Faulty(s) == {i \in DOMAIN s : "fault" \in DOMAIN s[i]}
NumFaults == Cardinality(Faulty(received)) + Cardinality(Faulty(yielded))

Write ==
    /\ \/ /\ Len(received) < MaxChunks
          /\ \E u \in Users, sp \in BOOLEAN : BotWrite(u, sp) \/ OldWrite(u, sp)
       \/ /\ Len(received) < MaxChunks2
          /\ \E u \in Users, len \in Lengths :
                /\ Len(yielded) + (len - 1) \div n <= MaxYielded
                /\ Bot2Write(len, u)
       \/ \E sp \in BOOLEAN : Bot2Frame(sp)
       \/ Bot2End
    /\ UNCHANGED fed

\* a write call, or a frame of one, on which the resampler or the classifier
\* raises
WriteRaises ==
    /\ NumFaults < MaxFaults
    /\ \/ /\ Len(received) < MaxChunks
          /\ \E u \in Users :
                \/ \E at \in {"resample", "vad"} : BotWriteRaises(u, at)
                \/ OldWriteRaises(u)
       \/ Bot2FrameRaises
    /\ UNCHANGED fed

Start ==
    (\E g \in Guilds : BotStart(g) \/ OldStart(g) \/ OldStartRaises(g))
        /\ UNCHANGED fed

Stop == (\E g \in Guilds : BotStop(g) \/ OldStop(g)) /\ UNCHANGED fed

Dispatch ==
    /\ \/ TaskRecognize
       \/ \E outcome \in {"sent", "failed", "empty"} : TaskReturn(outcome)
       \/ \E ok \in BOOLEAN : OldRecognizeReturn(ok)
    /\ UNCHANGED fed

Next == Write \/ WriteRaises \/ Start \/ Stop \/ Dispatch

Spec == Init /\ [][Next]_vars

\* ------------------------------------------------------ fairness (SpecLive)
\* bot.py on its own.  The event loop runs every task that is ready and a
\* call of recognize comes back, with a result or with an exception.
LiveInit == Init /\ prog = "bot"

LiveWrite ==
    /\ Len(received) < MaxChunks
    /\ \E u \in Users, sp \in BOOLEAN : BotWrite(u, sp)
    /\ UNCHANGED fed

LiveStart == (\E g \in Guilds : BotStart(g)) /\ UNCHANGED fed

LiveStop == (\E g \in Guilds : BotStop(g)) /\ UNCHANGED fed

LiveRecognize == TaskRecognize /\ UNCHANGED fed

LiveReturn ==
    (\E outcome \in {"sent", "failed", "empty"} : TaskReturn(outcome))
        /\ UNCHANGED fed

LiveNext == LiveWrite \/ LiveStart \/ LiveStop \/ LiveRecognize \/ LiveReturn

SpecLive ==
    /\ LiveInit
    /\ [][LiveNext]_vars
    /\ WF_vars(LiveRecognize)
    /\ WF_vars(LiveReturn)

\* ------------------------------------------ one long chunk (SpecFlips)
\* bot2.py with 330 ms of padding at 30 ms frames (a ring buffer of 11
\* frames, the smallest that can trigger or release with a frame of the
\* other kind in it) and one write call of one speaker; the verdicts change
\* at most FlipsMaxFlips times along the chunk.
FlipsInit ==
    /\ prog = "bot2"
    /\ RATE = 16000
    /\ CHUNK_DURATION_MS = 30
    /\ SILENCE_THRESHOLD = 330
    /\ config_silence_duration = 900
    /\ InitState

NumFlips(s) == Cardinality({k \in 1..(Len(s) - 1) : s[k].sp # s[k + 1].sp})

FlipsAllows(sp) ==
    IF yielded = <<>> THEN TRUE
    ELSE IF Last(yielded).sp = sp THEN TRUE
    ELSE NumFlips(yielded) < FlipsMaxFlips

FlipsLengths == {k * n + 1 : k \in {FlipsMaxFrames \div 2, FlipsMaxFrames}}

FlipsStart == received = <<>> /\ BotStart(1) /\ UNCHANGED fed

FlipsWrite ==
    /\ received = <<>>
    /\ \E len \in FlipsLengths : Bot2Write(len, 1)
    /\ UNCHANGED fed

FlipsFrame ==
    /\ \E sp \in BOOLEAN : FlipsAllows(sp) /\ Bot2Frame(sp)
    /\ UNCHANGED fed

FlipsEnd == Bot2End /\ UNCHANGED fed

FlipsNext == FlipsStart \/ FlipsWrite \/ FlipsFrame \/ FlipsEnd

SpecFlips == FlipsInit /\ [][FlipsNext]_vars

\* ------------------------------------------------ run-shaped input (SpecRuns)
\* The legacy configuration: 900 ms of padding at 30 ms frames, so a ring
\* buffer of 30 frames in bot2.py, 30 silent chunks in bot.py and
\* max_silence_frames = 30 in old.bot.py.  One speaker; the classifier
\* verdicts form a run of speech followed by a run of non-speech, or
\* non-speech only.
RunsInit ==
    /\ prog \in Progs
    /\ RATE = 16000
    /\ CHUNK_DURATION_MS = 30
    /\ SILENCE_THRESHOLD = IF prog = "bot2" THEN 900
                           ELSE IF prog = "bot" THEN 30 ELSE 0
    /\ config_silence_duration = 900
    /\ InitState

NumSpeechFed == Cardinality({i \in DOMAIN fed : fed[i]})
NumSilenceFed == Cardinality({i \in DOMAIN fed : ~fed[i]})

RunAllows(sp) ==
    IF sp THEN NumSilenceFed = 0 /\ NumSpeechFed < RunsMaxSpeech
    ELSE IF NumSpeechFed = 0 THEN NumSilenceFed < RunsMaxSilence
    ELSE NumSilenceFed < RunsMaxTail

RunsLengths == {k * n + 1 : k \in {0, 30, 57, 58, RunsMaxSpeech + RunsMaxTail,
                                   RunsMaxSilence}}

RunsWrite ==
    \/ \E sp \in BOOLEAN :
          /\ RunAllows(sp)
          /\ BotWrite(1, sp) \/ OldWrite(1, sp) \/ Bot2Frame(sp)
          /\ fed' = Append(fed, sp)
    \/ /\ received = <<>>
       /\ \E len \in RunsLengths : Bot2Write(len, 1)
       /\ UNCHANGED fed
    \/ Bot2End /\ UNCHANGED fed

\* one recording session: nothing is started again once audio has arrived
RunsStart == received = <<>> /\ Start

RunsNext == RunsWrite \/ RunsStart \/ Stop \/ Dispatch

SpecRuns == RunsInit /\ [][RunsNext]_vars

\* =================================================================== claims
AllPieces == Flatten([i \in DOMAIN emitted |-> emitted[i].data])

\* p arrived before q: an earlier write, or earlier bytes of the same write
ArrivedBefore(p, q) ==
    \/ p.id < q.id
    \/ p.id = q.id /\ prog = "bot2" /\ p.lo < q.lo

\* C1 (Isolation): every emitted segment consists of audio of one single
\* speaker, in that speaker's arrival order; no segment holds audio of two
\* speakers.
C1_Isolation ==
    \A i \in DOMAIN emitted :
        LET d == emitted[i].data
        IN  \A j, k \in DOMAIN d :
                /\ d[j].user = d[k].user
                /\ j < k => ArrivedBefore(d[j], d[k])

\* C2: the audio of an input frame is contained in at most one emitted
\* segment, whatever the transcription call answers and also at teardown.
C2_NoFrameTwice ==
    \A i, j \in DOMAIN AllPieces : i # j => AllPieces[i] # AllPieces[j]

SpeechThenSilence(s, q) == [i \in 1..(s + q) |-> i <= s]

\* C3 as stated (Trigger property): with a ring buffer of 30 frames, 30
\* speech frames put the collector in Triggered, and 27 further non-speech
\* frames put it back in NotTriggered with exactly one segment emitted, as
\* long as the 30 voiced frames.
C3_TriggerProperty ==
    (prog = "bot2" /\ pc = "loop" /\ num_padding_frames = 30) =>
        /\ fed = SpeechThenSilence(30, 0) => triggered
        /\ fed = SpeechThenSilence(30, 27) =>
              /\ ~triggered
              /\ Len(emitted) = 1
              /\ SumLen(emitted[1].data) = 30 * n

\* C3 amended: with a ring buffer of 30 frames, 30 speech frames put the
\* collector in Triggered; after 27 further non-speech frames it is still
\* Triggered and has emitted nothing; the 28th non-speech frame puts it back
\* in NotTriggered and emits exactly one segment, as long as all 58 frames
\* fed (the 30 speech frames and the 28 non-speech frames after them).
C3_TriggerAmended ==
    (prog = "bot2" /\ pc = "loop" /\ num_padding_frames = 30) =>
        /\ fed = SpeechThenSilence(30, 0) => triggered /\ emitted = <<>>
        /\ fed = SpeechThenSilence(30, 27) => triggered /\ emitted = <<>>
        /\ fed = SpeechThenSilence(30, 28) =>
              /\ ~triggered
              /\ voiced_frames = <<>>
              /\ Len(emitted) = 1
              /\ SumLen(emitted[1].data) = 58 * n

C3_Witness ==
    /\ prog = "bot2" /\ pc = "loop" /\ num_padding_frames = 30
    /\ fed = SpeechThenSilence(30, 28)
    /\ Len(emitted) = 1

\* C4 (All-non-speech): as long as every frame fed was classified
\* non-speech, no segment has been emitted and no dispatch task created,
\* end of stream and teardown included.
C4_AllNonSpeech ==
    (\A i \in DOMAIN fed : ~fed[i]) => emitted = <<>> /\ tasks = <<>>

C4_Witness ==
    /\ prog = "bot2" /\ pc = "idle"
    /\ Len(fed) >= 600
    /\ \A i \in DOMAIN fed : ~fed[i]
    /\ Len(yielded) = Len(fed)

\* a step of the collector loop that took one frame
FrameTaken == pc = "loop" /\ Len(yielded') = Len(yielded) + 1

\* C5: the ring buffer never holds more frames than padding_duration_ms
\* divided (integer division) by frame_duration_ms, and appending to a full
\* ring buffer drops the oldest frame.
C5_RingBounded ==
    /\ [](Len(ring_buffer) <= SILENCE_THRESHOLD \div CHUNK_DURATION_MS)
    /\ [][(/\ FrameTaken
           /\ Len(ring_buffer) = SILENCE_THRESHOLD \div CHUNK_DURATION_MS
           /\ ring_buffer' # <<>>)
          => ring_buffer' = Append(Tail(ring_buffer), Last(yielded'))]_vars

C5_Witness ==
    /\ prog = "bot2" /\ pc = "loop" /\ ~triggered
    /\ num_padding_frames >= 2
    /\ Len(ring_buffer) = num_padding_frames
    /\ offset > num_padding_frames * n
    /\ ring_buffer[1].lo > 0

TornDown == ~recording /\ recognizing = "none" /\ pc = "idle"

\* C6 (Teardown flush): once a recording session has been stopped and its
\* sink cleaned up, every piece of audio that was put in the accumulator
\* is part of an emitted segment.
C6_TeardownFlush ==
    TornDown => Range(accepted) \subseteq Range(AllPieces)

\* a flush: MySink.cleanup in old.bot.py (from the call to its return), the
\* code after the loop of vad_collector in bot2.py
OldFlushCall == prog = "old" /\ recognizing = "none" /\ recording /\ ~recording'
OldFlushReturn ==
    \/ OldFlushCall /\ recognizing' = "none"
    \/ recognizing = "cleanup" /\ recognizing' = "none"
Bot2Flush == prog = "bot2" /\ pc = "loop" /\ pc' = "idle" /\ yielded' = yielded

\* C7 (Flush idempotence): a flush with an empty accumulator emits nothing;
\* a flush with a non-empty accumulator emits exactly one segment and
\* leaves the accumulator empty, so that a second flush emits nothing.
C7_FlushIdempotent ==
    [][/\ OldFlushCall =>
             Len(emitted') = Len(emitted) + (IF audio_buffer = <<>> THEN 0 ELSE 1)
       /\ OldFlushReturn => audio_buffer' = <<>>
       /\ Bot2Flush =>
             /\ Len(emitted') = Len(emitted) + (IF voiced_frames = <<>> THEN 0 ELSE 1)
             /\ CollectorFinal(voiced_frames') = <<>>]_vars

FramesOf(c) == SelectSeq(yielded, LAMBDA f : f.id = c.id)

\* C8 (Framing count): a chunk of L bytes is sliced into exactly
\* floor(L / F) frames of F bytes each, frame i being bytes
\* [i * F, (i + 1) * F) of the chunk.
C8_FramingCount ==
    (prog = "bot2" /\ pc = "idle") =>
        \A c \in Range(received) :
            LET fs == FramesOf(c)
            IN  /\ Len(fs) = c.len \div n
                /\ \A k \in DOMAIN fs :
                      fs[k].lo = (k - 1) * n /\ fs[k].hi = k * n

FramesOfUser(u) == SelectSeq(yielded, LAMBDA f : f.user = u)
ChunksOfUser(u) == SelectSeq(received, LAMBDA c : c.user = u)

RECURSIVE SumBytes(_)
SumBytes(cs) == IF cs = <<>> THEN 0 ELSE Head(cs).len + SumBytes(Tail(cs))

\* position of the first byte of frame f in the byte stream of its speaker
StreamPos(f) ==
    SumBytes(SelectSeq(received, LAMBDA c : c.user = f.user /\ c.id < f.id))
        + f.lo

\* C9 (Framing remainder): for one speaker the frames produced, put end to
\* end, are the bytes received put end to end, up to a pending tail shorter
\* than one frame: each frame starts where the frames before it end, and
\* fewer than F received bytes are in no frame.
C9_RemainderKept ==
    (prog = "bot2" /\ pc = "idle") =>
        \A u \in Users :
            LET fs == FramesOfUser(u)
            IN  /\ \A k \in DOMAIN fs :
                      StreamPos(fs[k]) = SumLen(SubSeq(fs, 1, k - 1))
                /\ SumBytes(ChunksOfUser(u)) - SumLen(fs) < n

\* C10: no ingestion call (write / process_audio) is ever suspended inside
\* the recognize call of a segment.
C10_IngestionNeverWaits == recognizing # "process"

C12_FailureIsolated ==
    [][/\ (recognizing = "process" /\ recognizing' = "none") =>
             (audio_buffer' = <<>> /\ silence_frames' = 0)
       /\ (event'.op = "task") =>
             UNCHANGED <<speaking_buffer, silence_duration, is_speaking>>]_vars

\* the step is a write call, or a frame of one, in which the resampler
\* (at = "resample") or the classifier (at = "vad") raised
RaisedIn(before, after, at) ==
    /\ Len(after) = Len(before) + 1
    /\ "fault" \in DOMAIN Last(after)
    /\ Last(after).fault = at
RaisedOn(at) == RaisedIn(received, received', at) \/ RaisedIn(yielded, yielded', at)

\* C13 (classification failure is fail-safe): a frame on which the
\* classifier raises changes the collector exactly as a non-speech frame
\* does (the silence counter advances, a due segment is dispatched, the
\* ring buffer takes the frame), and the rest of the write call goes on.
C13_ClassifierFailSafe ==
    [][RaisedOn("vad") =>
         /\ prog = "bot" =>
               /\ silence_duration' = silence_duration + 1
               /\ is_speaking' =
                     (is_speaking /\ silence_duration + 1 < SILENCE_THRESHOLD)
               /\ speaking_buffer' =
                     IF is_speaking' THEN speaking_buffer
                     ELSE IF is_speaking THEN <<>> ELSE speaking_buffer
         /\ prog = "old" => silence_frames' = silence_frames + 1
         /\ prog = "bot2" =>
               LET r == CollectorStep(ring_buffer, triggered, voiced_frames,
                                      num_padding_frames,
                                      SliceFrame(audio, offset, FALSE))
               IN  /\ pc' = "loop"
                   /\ Len(ring_buffer') = Len(r.ring_buffer)
                   /\ triggered' = r.triggered
                   /\ Len(voiced_frames') = Len(r.voiced_frames)]_vars

\* C14 (resampling failure): a write call of bot.py in which the resampling
\* raises leaves speaking_buffer, silence_duration and is_speaking as they
\* were, lets no exception out and leaves the sink recording.
C14_ResampleFailure ==
    [][RaisedOn("resample") =>
         /\ UNCHANGED <<speaking_buffer, silence_duration, is_speaking>>
         /\ event'.result = "ok"
         /\ recording']_vars

\* a chunk was buffered, the resampling of a later one failed, and a chunk
\* after that was buffered behind the first
C14_Witness ==
    /\ prog = "bot"
    /\ \E i, j, k \in DOMAIN received :
          /\ i < j /\ j < k
          /\ "fault" \in DOMAIN received[j]
          /\ received[j].fault = "resample"
          /\ speaking_buffer = <<received[i], received[k]>>

Registered(g) == g \in connections \/ g \in recording_channels

\* C15 (one session per conversation): there is never more than one sink
\* being recorded into, and a start / join command handled while the
\* conversation is registered changes neither the sinks nor the registry.
C15_OneSession ==
    /\ [](sinks <= 1)
    /\ [][(event'.op = "start" /\ \E g \in Guilds : Registered(g)) =>
             UNCHANGED <<sinks, recording, connections, recording_channels>>]_vars

C15_Witness ==
    /\ event.op = "start"
    /\ event.result \in {"refused", "raised"}
    /\ sinks = 1
    /\ received # <<>>

\* C16 (teardown of an unknown session): a stop command for a conversation
\* that has no registered session leaves the registry as it is, stops no
\* recording and raises nothing.
C16_StopUnknown ==
    [][(event'.op = "stop" /\ \A g \in Guilds : ~Registered(g)) =>
         /\ UNCHANGED <<connections, recording_channels, recording, sinks>>
         /\ event'.result = "unknown"]_vars

C16_Witness ==
    /\ event = Event("stop", "unknown")
    /\ received # <<>>
    /\ ~recording

AnyTorn == \E i \in DOMAIN tasks : tasks[i].torn
Recognizing == {i \in DOMAIN tasks : tasks[i].st = "recognizing"}

C18_Attribution ==
    \A i \in DOMAIN tasks :
        \A p \in Range(tasks[i].audio_data) : p.user = tasks[i].user

\* C19 (backpressure): no speaker ever has more finished segments waiting
\* for their recognize call than the dispatch queue is deep (2 at most).
C19_Backpressure ==
    \A u \in Users :
        Cardinality({i \in DOMAIN tasks :
                        tasks[i].user = u /\ tasks[i].st = "pending"}) <= 2

\* a step of the collector loop that classified one frame while the
\* collector was not triggered; AfterAppend is the ring buffer as it was
\* when the threshold was checked (a trigger moves it to voiced_frames)
NotTriggeredStep ==
    /\ prog = "bot2"
    /\ FrameTaken
    /\ "sp" \in DOMAIN Last(yielded')
    /\ ~triggered
AfterAppend == IF triggered' THEN voiced_frames' ELSE ring_buffer'
SpeechIn(rb) == Cardinality({i \in DOMAIN rb : rb[i].sp})

\* C20 as stated (trigger condition): while not triggered the frame is
\* appended first, and the collector triggers exactly when more than 0.9 of
\* the frames then in the ring buffer are speech.
C20_TriggerOfCurrent ==
    [][NotTriggeredStep =>
         /\ Last(AfterAppend) = Last(yielded')
         /\ triggered' <=> 10 * SpeechIn(AfterAppend) > 9 * Len(AfterAppend)]_vars

\* C20 amended: while not triggered the frame is appended first, and the
\* collector triggers exactly when the speech frames then in the ring
\* buffer are more than 0.9 times its capacity.
C20_TriggerOfCapacity ==
    [][NotTriggeredStep =>
         /\ Last(AfterAppend) = Last(yielded')
         /\ triggered' <=>
               10 * SpeechIn(AfterAppend) >
                   9 * (SILENCE_THRESHOLD \div CHUNK_DURATION_MS)]_vars

\* a ring buffer of two frames: the first speech frame was all of the
\* buffer and did not trigger, the second did
C20_Witness ==
    /\ prog = "bot2"
    /\ triggered
    /\ SILENCE_THRESHOLD \div CHUNK_DURATION_MS = 2
    /\ Len(yielded) = 2
    /\ voiced_frames = yielded

\* the chunks that were classified, and how many non-speech chunks in a row
\* end them
Classified(s) == SelectSeq(s, LAMBDA c : "sp" \in DOMAIN c)
TrailingSilence(s) ==
    LET c == Classified(s)
    IN  Cardinality({k \in 1..Len(c) :
                        \A j \in (Len(c) - k + 1)..Len(c) : ~c[j].sp})
SpeechReceived ==
    /\ Len(received') = Len(received) + 1
    /\ "sp" \in DOMAIN Last(received')
    /\ Last(received').sp

\* C23 (hangover): bot.py's write dispatches an utterance only when at
\* least SILENCE_THRESHOLD non-speech chunks in a row have arrived since the
\* last speech chunk, old.bot.py's process_audio only when more than
\* silence_duration // 30 have, and a speech chunk sets the silence count
\* to zero.
C23_Hangover ==
    [][/\ (prog = "bot" /\ Len(emitted') > Len(emitted)) =>
             TrailingSilence(received') >= SILENCE_THRESHOLD
       /\ (prog = "old" /\ Len(emitted') > Len(emitted)
              /\ Last(emitted').via = "process") =>
             TrailingSilence(received') > config_silence_duration \div 30
       /\ (prog = "bot" /\ SpeechReceived) => silence_duration' = 0
       /\ (prog = "old" /\ SpeechReceived) => silence_frames' = 0]_vars

\* the first non-speech chunk did not end the utterance, the second did
C23_Witness ==
    /\ prog = "bot"
    /\ SILENCE_THRESHOLD = 2
    /\ Len(received) = 4
    /\ Len(Classified(received)) = 4
    /\ received[1].sp /\ ~received[2].sp /\ ~received[3].sp
    /\ ~received[4].sp
    /\ Len(emitted) = 1
    /\ silence_duration = 3

\* the ring buffer as the code leaves it after appending the frame just
\* taken: the latest frames of the chunk, one more than it held, its
\* capacity at most
RingCapacity == SILENCE_THRESHOLD \div CHUNK_DURATION_MS
RingAfter ==
    LET k == IF Len(ring_buffer) + 1 < RingCapacity
             THEN Len(ring_buffer) + 1 ELSE RingCapacity
    IN  SubSeq(yielded', Len(yielded') - k + 1, Len(yielded'))

\* C21 (trigger effect): at the step from NotTriggered to Triggered the
\* voiced accumulator becomes the frames of the ring buffer in arrival
\* order, the non-speech ones included, the ring buffer becomes empty and
\* no segment is emitted.
C21_TriggerEffect ==
    [][(NotTriggeredStep /\ triggered') =>
         /\ voiced_frames' = RingAfter
         /\ ring_buffer' = <<>>
         /\ emitted' = emitted
         /\ tasks' = tasks]_vars

\* the collector has just triggered on a full ring buffer that held a
\* non-speech frame, after dropping an older frame
C21_Witness ==
    /\ prog = "bot2"
    /\ triggered
    /\ ring_buffer = <<>>
    /\ Len(voiced_frames) = RingCapacity
    /\ Len(yielded) = RingCapacity + 1
    /\ \E k \in DOMAIN voiced_frames : ~voiced_frames[k].sp
    /\ emitted = <<>>

\* a step of the collector loop that classified one frame while the
\* collector was triggered
TriggeredStep ==
    /\ prog = "bot2"
    /\ FrameTaken
    /\ "sp" \in DOMAIN Last(yielded')
    /\ triggered
NonSpeechIn(rb) == Cardinality({i \in DOMAIN rb : ~rb[i].sp})

\* what C22 asks of a frame taken in Triggered, the end of the segment
\* being due or not
EndOfSegment(due) ==
    LET acc == Append(voiced_frames, Last(yielded'))
    IN  IF due
        THEN /\ Len(emitted') = Len(emitted) + 1
             /\ Last(emitted').data = acc
             /\ ~triggered'
             /\ voiced_frames' = <<>>
             /\ ring_buffer' = <<>>
        ELSE /\ emitted' = emitted
             /\ triggered'
             /\ voiced_frames' = acc
             /\ ring_buffer' = RingAfter

\* C22 as stated (end of segment): in Triggered each frame goes to the
\* accumulator and to the ring buffer, and at the step where more than 0.9
\* of the frames in the ring buffer are non-speech exactly one segment, the
\* accumulator's frames in arrival order, is emitted and the collector is
\* in NotTriggered with both buffers empty.
C22_EndOfCurrent ==
    [][TriggeredStep =>
         EndOfSegment(10 * NonSpeechIn(RingAfter) > 9 * Len(RingAfter))]_vars

\* C22 amended: the same, the step being the one where the non-speech
\* frames in the ring buffer are more than 0.9 times its capacity.
C22_EndOfCapacity ==
    [][TriggeredStep =>
         EndOfSegment(10 * NonSpeechIn(RingAfter) > 9 * RingCapacity)]_vars

\* a segment has just ended on a ring buffer that held a speech frame
C22_Witness ==
    /\ prog = "bot2"
    /\ pc = "loop"
    /\ ~triggered
    /\ ring_buffer = <<>>
    /\ voiced_frames = <<>>
    /\ Len(emitted) = 1
    /\ Last(emitted[1].data) = Last(yielded)
    /\ \E k \in (Len(yielded) - RingCapacity + 1)..Len(yielded) : yielded[k].sp

\* the frames of a segment follow one another in the chunk
Contiguous(d) ==
    \A k \in 1..(Len(d) - 1) : d[k + 1].id = d[k].id /\ d[k + 1].lo = d[k].hi

\* C24: the segments of one run of vad_collector, the final one included,
\* are runs of consecutive input frames without a gap, and every frame of
\* a later segment comes after every frame of an earlier one.
C24_SegmentsInOrder ==
    prog = "bot2" =>
        /\ \A i \in DOMAIN emitted :
              /\ emitted[i].data # <<>>
              /\ Contiguous(emitted[i].data)
              /\ \E k \in DOMAIN yielded : yielded[k] = emitted[i].data[1]
        /\ \A i, j \in DOMAIN emitted :
              (i < j /\ emitted[i].data[1].id = emitted[j].data[1].id) =>
                  Last(emitted[i].data).hi <= emitted[j].data[1].lo

\* a segment ended inside the chunk and a second one at the end of input
C24_Witness ==
    /\ prog = "bot2"
    /\ pc = "idle"
    /\ Len(emitted) = 2
    /\ emitted[1].via = "collector"
    /\ emitted[2].via = "final"
    /\ Last(emitted[1].data).hi <= emitted[2].data[1].lo

\* C25: a guild is in recording_channels only while a recording is running
\* for it (or is being stopped: on_recording_done is still inside
\* sink.cleanup), whatever the outcome of the start commands before.
C25_MarkOnlyWhileRecording ==
    prog = "old" =>
        \A g \in recording_channels : recording \/ recognizing = "cleanup"

====
